---- MODULE Spec2Model ----
(***************************************************************************)
(* Slope Field Generator: the expression translator (ti84_to_numpy), the   *)
(* evaluator (safe_slope_func), the grid construction and the render call  *)
(* (generate_plot) of "Slope Field.py".                                    *)
(*                                                                         *)
(* Lengths are integers in hundredths (0.01 is 1, the step 0.05 is 5).     *)
(* Text is a sequence of one-character strings.                            *)
(***************************************************************************)
EXTENDS Integers, Sequences, FiniteSets, TLC

VARIABLES trTokens, trOut,                       \* translator run
          gXMax, gRadii,                         \* polar grid construction run
          shown, attached, axColorbar, calls, last   \* drawing surface

trVars == <<trTokens, trOut>>
gVars == <<gXMax, gRadii>>
rVars == <<shown, attached, axColorbar, calls, last>>
vars == <<trTokens, trOut, gXMax, gRadii,
          shown, attached, axColorbar, calls, last>>

None == "None"

(***************************************************************************)
(* Bounds                                                                  *)
(***************************************************************************)
MaxTokens == 3
MaxV == 1
MaxCalls == 3
MaxXMax == 60

(***************************************************************************)
(* Text                                                                    *)
(***************************************************************************)
T_sin == <<"s", "i", "n">>
T_cos == <<"c", "o", "s">>
T_tan == <<"t", "a", "n">>
T_log == <<"l", "o", "g">>
T_ln == <<"l", "n">>
T_sqrt == <<"s", "q", "r", "t">>
T_np == <<"n", "p", ".">>
T_log10 == <<"l", "o", "g", "1", "0">>

FunctionNames == {T_sin, T_cos, T_tan, T_log, T_ln, T_sqrt}

RECURSIVE Concat(_)
Concat(ss) == IF ss = <<>> THEN <<>> ELSE Head(ss) \o Concat(Tail(ss))

\* s[i..i+Len(t)-1] = t
OccursAt(s, t, i) ==
    /\ i >= 1
    /\ i + Len(t) - 1 <= Len(s)
    /\ SubSeq(s, i, i + Len(t) - 1) = t

Occurrences(s, t) == {i \in 1..Len(s) : OccursAt(s, t, i)}

\* str.replace(old, new): leftmost non-overlapping occurrences, one pass
RECURSIVE Replace(_, _, _)
Replace(s, old, new) ==
    IF Len(s) < Len(old) THEN s
    ELSE IF SubSeq(s, 1, Len(old)) = old
         THEN new \o Replace(SubSeq(s, Len(old) + 1, Len(s)), old, new)
         ELSE <<Head(s)>> \o Replace(Tail(s), old, new)

ti84_to_numpy_lnFirst(expr) ==
    LET s1 == Replace(expr, <<"^">>, <<"*", "*">>)
        s2 == Replace(s1, T_sin, T_np \o T_sin)
        s3 == Replace(s2, T_cos, T_np \o T_cos)
        s4 == Replace(s3, T_tan, T_np \o T_tan)
        s5 == Replace(s4, T_ln, T_np \o T_log)
        s6 == Replace(s5, T_log, T_np \o T_log10)
    IN  Replace(s6, T_sqrt, T_np \o T_sqrt)

ti84_to_numpy(expr) ==
    LET s1 == Replace(expr, <<"^">>, <<"*", "*">>)
        s2 == Replace(s1, T_sin, T_np \o T_sin)
        s3 == Replace(s2, T_cos, T_np \o T_cos)
        s4 == Replace(s3, T_tan, T_np \o T_tan)
        s5 == Replace(s4, T_log, T_np \o T_log10)
        s6 == Replace(s5, T_ln, T_np \o T_log)
    IN  Replace(s6, T_sqrt, T_np \o T_sqrt)

\* The vocabulary of the calculator notation
Tokens == {<<"x">>, <<"y">>, <<"1">>, <<"+">>, <<"(">>, <<")">>, <<"^">>}
              \cup FunctionNames

\* The intended image of one token
TokenImage(t) ==
    IF t = <<"^">> THEN <<"*", "*">>
    ELSE IF t = T_log THEN T_np \o T_log10
    ELSE IF t = T_ln THEN T_np \o T_log
    ELSE IF t \in FunctionNames THEN T_np \o t
    ELSE t

TokenSeqs == UNION {[1..n -> Tokens] : n \in 0..MaxTokens}

(***************************************************************************)
(* Grid construction (generate_plot, the coordinate-system branches)       *)
(***************************************************************************)
step == 5

\* Length of np.arange(start, stop, st) = ceil((stop - start) / st), computed
\* in binary floating point: when stop - start is a whole multiple of st the
\* quotient may round to either side of the integer.
ArangeLens(start, stop, st) ==
    LET d == stop - start
    IN  IF d <= 0 THEN {0}
        ELSE IF d % st = 0 THEN {d \div st, d \div st + 1}
        ELSE {d \div st + 1}

Arange(start, st, n) == [i \in 1..n |-> start + (i - 1) * st]

\* Length of np.arange(-m, m + step, 0.2 * sqrt(3)): the least n with
\* n * 20 * sqrt(3) >= d, that is 1200 * n^2 >= d^2
HexRowLen(m) ==
    LET d == 2 * m + step
    IN  IF d <= 0 THEN 0
        ELSE CHOOSE n \in 1..d :
                 /\ 1200 * n * n >= d * d
                 /\ 1200 * (n - 1) * (n - 1) < d * d

\* int(m / step) for m >= 0, the quotient computed in floating point
LogspaceNums(m) ==
    IF m > 0 /\ m % step = 0 THEN {m \div step - 1, m \div step}
    ELSE {m \div step}

ThetaLenPolar == 126
ThetaLenLogPolar == 125

CoordSystems == {"Cartesian", "Polar", "Log-Polar", "Log-Log", "Hexagonal",
                 "Complex Plane"}

\* Grids on which X rows are equal and evenly spaced
UniformSystems == {"Cartesian", "Hexagonal", "Complex Plane"}

PolarRadii_fromZero(x_max) ==
    {Arange(0, step, n) : n \in ArangeLens(0, x_max, step)}

\* r = np.arange(0.01, x_max, step)
PolarRadii(x_max) ==
    {Arange(1, step, n) : n \in ArangeLens(1, x_max, step)}

\* The shapes (rows, columns) X and Y can have; np.meshgrid(a, b) has
\* len(b) rows and len(a) columns
GridShapes(coord_system, x_max, y_max) ==
    CASE coord_system \in {"Cartesian", "Complex Plane"} ->
             {<<ny, nx>> : ny \in ArangeLens(-y_max, y_max + step, step),
                           nx \in ArangeLens(-x_max, x_max + step, step)}
      [] coord_system = "Polar" ->
             {<<ThetaLenPolar, Len(r)>> : r \in PolarRadii(x_max)}
      [] coord_system = "Log-Polar" ->
             {<<ThetaLenLogPolar, nr>> : nr \in LogspaceNums(x_max)}
      [] coord_system = "Log-Log" ->
             {<<ny, nx>> : ny \in LogspaceNums(y_max),
                           nx \in LogspaceNums(x_max)}
      [] coord_system = "Hexagonal" ->
             {<<HexRowLen(y_max), nx>> :
                  nx \in ArangeLens(-x_max, x_max + step, 20)}
      [] OTHER -> {}

Size(shape) == IF shape = <<>> THEN 1 ELSE shape[1] * shape[2]

\* Whether X has a negative entry: the linear axes start at -x_max, the polar
\* grids take r * cos(theta) round the full circle, the log axes are positive
HasNegativeX(coord_system, x_max, shape) ==
    /\ Size(shape) > 0
    /\ \/ coord_system \in {"Cartesian", "Complex Plane", "Hexagonal"} /\ x_max > 0
       \/ coord_system \in {"Polar", "Log-Polar"}

\* Whether X has an entry that is not negative
HasNonNegativeX(coord_system, x_max, shape) == Size(shape) > 0

\* The sample grids generate_plot can build: the shape of X and Y and the
\* signs X takes
Grids(coord_system, x_max, y_max) ==
    {[shape |-> sh,
      xneg |-> HasNegativeX(coord_system, x_max, sh),
      xpos |-> HasNonNegativeX(coord_system, x_max, sh)] :
         sh \in GridShapes(coord_system, x_max, y_max)}

NoGrid == [shape |-> <<0, 0>>, xneg |-> FALSE, xpos |-> FALSE]

(***************************************************************************)
(* Evaluator (safe_slope_func)                                             *)
(***************************************************************************)
\* An array is represented by its kind, its shape and the values occurring
\* in it: the finite ones and whether NaN occurs.
NoV == [kind |-> "none", shape |-> <<>>, finite |-> {}, nan |-> FALSE]

RECURSIVE ParenDepthOk(_, _)
ParenDepthOk(s, depth) ==
    IF s = <<>> THEN depth = 0
    ELSE IF Head(s) = "(" THEN ParenDepthOk(Tail(s), depth + 1)
    ELSE IF Head(s) = ")" THEN depth > 0 /\ ParenDepthOk(Tail(s), depth - 1)
    ELSE ParenDepthOk(Tail(s), depth)

\* compile(expr, "<string>", "eval") raises SyntaxError on empty text and on
\* unbalanced parentheses
CompileOK(expr) == expr # <<>> /\ ParenDepthOk(expr, 0)

\* Expressions a user can type
E_poly == <<"x", "^", "2", "-", "y">>
E_sqrt == <<"s", "q", "r", "t", "(", "x", ")">>
E_const == <<"2">>
E_cos0 == <<"c", "o", "s", "(", "0", ")">>
E_lnneg == <<"l", "n", "(", "0", "-", "1", ")">>
E_divzero == <<"1", "/", "0">>
E_name == <<"z">>
E_unbalanced == <<"s", "q", "r", "t", "(", "x">>
E_exit == <<"e", "x", "i", "t", "(", ")">>

Exprs == {E_poly, E_sqrt, E_const, E_cos0, E_lnneg, E_divzero, E_name,
          E_unbalanced, E_exit}

\* eval(compiled, {"np": np, "x": x_arr, "y": y_arr}): what the text yields.
\* exc is the class of the exception raised, "none" if a value is returned;
\* finite gives the finite values the result can contain, nan where it is
\* NaN ("xneg": at the entries where x is negative).
EvalProfile(expr) ==
    CASE expr = <<"x", "*", "*", "2", "-", "y">> ->
             [exc |-> "none", kind |-> "ndarray",
              finite |-> (0 - MaxV)..MaxV, nan |-> "never"]
      [] expr = <<"n", "p", ".", "s", "q", "r", "t", "(", "x", ")">> ->
             [exc |-> "none", kind |-> "ndarray",
              finite |-> 0..MaxV, nan |-> "xneg"]
      [] expr = <<"2">> ->
             [exc |-> "none", kind |-> "pyint", finite |-> {2}, nan |-> "never"]
      [] expr = <<"n", "p", ".", "c", "o", "s", "(", "0", ")">> ->
             [exc |-> "none", kind |-> "npscalar",
              finite |-> {1}, nan |-> "never"]
      [] expr = <<"n", "p", ".", "l", "o", "g", "(", "0", "-", "1", ")">> ->
             [exc |-> "none", kind |-> "npscalar",
              finite |-> {}, nan |-> "always"]
      [] expr = <<"1", "/", "0">> ->
             [exc |-> "Exception", kind |-> "none", finite |-> {}, nan |-> "never"]
      [] expr = <<"e", "x", "i", "t", "(", ")">> ->
             [exc |-> "BaseException", kind |-> "none",
              finite |-> {}, nan |-> "never"]
      [] OTHER ->
             [exc |-> "Exception", kind |-> "none", finite |-> {}, nan |-> "never"]

Count(V) == Cardinality(V.finite) + (IF V.nan THEN 1 ELSE 0)

\* The results of eval for an expression on a grid
EvalValues(expr, grid) ==
    LET p == EvalProfile(expr)
    IN  IF p.kind = "ndarray"
        THEN {V \in [kind : {"ndarray"}, shape : {grid.shape},
                     finite : SUBSET p.finite,
                     nan : {p.nan = "xneg" /\ grid.xneg}] :
                  /\ Count(V) <= Size(grid.shape)
                  /\ V.finite = {} <=>
                         (Size(grid.shape) = 0 \/ (p.nan = "xneg" /\ ~grid.xpos))}
        ELSE {[kind |-> p.kind, shape |-> <<>>,
               finite |-> p.finite, nan |-> p.nan = "always"]}

full_like_zero(shape) ==
    [kind |-> "ndarray", shape |-> shape,
     finite |-> IF Size(shape) > 0 THEN {0} ELSE {}, nan |-> FALSE]

\* np.full_like(x, np.nan, dtype=np.float64)
full_like_nan(shape) ==
    [kind |-> "ndarray", shape |-> shape, finite |-> {},
     nan |-> Size(shape) > 0]

\* One call func(x, y) of the evaluator; escaped: the exception left func
func(expr, grid) ==
    LET p == EvalProfile(expr)
    IN  IF p.exc = "none"
        THEN {[escaped |-> FALSE, exc |-> "none", V |-> V] :
                  V \in EvalValues(expr, grid)}
        ELSE IF p.exc = "Exception"
        THEN {[escaped |-> FALSE, exc |-> p.exc,
               V |-> full_like_nan(grid.shape)]}
        ELSE {[escaped |-> TRUE, exc |-> p.exc, V |-> NoV]}

(***************************************************************************)
(* Render call (generate_plot)                                             *)
(***************************************************************************)
Palette == {"viridis"}

MinOf(S) == CHOOSE m \in S : \A v \in S : m <= v
MaxOf(S) == CHOOSE m \in S : \A v \in S : m >= v

NoNumber == [nan |-> FALSE, set |-> FALSE, v |-> 0]

\* np.min(V), np.max(V): NaN as soon as one entry is NaN
np_min(V) ==
    IF V.nan THEN [nan |-> TRUE, set |-> TRUE, v |-> 0]
    ELSE [nan |-> FALSE, set |-> TRUE, v |-> MinOf(V.finite)]

np_max(V) ==
    IF V.nan THEN [nan |-> TRUE, set |-> TRUE, v |-> 0]
    ELSE [nan |-> FALSE, set |-> TRUE, v |-> MaxOf(V.finite)]

isnan_all_skipped(V) == FALSE

\* np.isnan(V).all()
isnan_all(V) == V.finite = {}

zeros_like(v) == 0

\* U = np.ones_like(V), at one entry
ones_like(v) == 1

\* length**2 = U**2 + V**2 at the entries of V that are finite
LengthSq(V) == {ones_like(v) * ones_like(v) + v * v : v \in V.finite}

\* ax.streamplot raises ValueError unless the grid is evenly spaced with at
\* least two rows and columns and V has the grid's shape
StreamplotRaises(coord_system, grid, V) ==
    \/ coord_system \notin UniformSystems
    \/ grid.shape[1] < 2
    \/ grid.shape[2] < 2
    \/ V.shape # grid.shape

\* V.flatten(): an int has no such attribute
FlattenRaises(V) == V.kind = "pyint"

Faults == {"none", "L106", "L107"}

NoCall ==
    [in |-> [expr_raw |-> <<>>, x_max |-> 0, y_max |-> 0, cmap_name |-> "",
             streamplot |-> FALSE, coord_system |-> ""],
     fault |-> "none", compiled |-> FALSE, grid |-> NoGrid,
     exc |-> "notrun", V |-> NoV, lengthSq |-> {},
     vmin |-> NoNumber, vmax |-> NoNumber, cbar |-> 0, outcome |-> "none"]

\* The except block: ax.clear(), the diagnostic text, no ticks
Failure(r, att, ref) ==
    [shown |-> [kind |-> "diagnostic", call |-> 0],
     attached |-> att, axColorbar |-> ref,
     last |-> [r EXCEPT !.outcome = "Failure"]]

\* An exception leaves generate_plot; the axes were cleared on entry
Raised(r, att, ref) ==
    [shown |-> [kind |-> "cleared", call |-> 0],
     attached |-> att, axColorbar |-> ref,
     last |-> [r EXCEPT !.outcome = "Raised"]]

\* generate_plot(ax, expr_raw, x_max, y_max, cmap_name, streamplot,
\* coord_system) on a surface with the colorbars att attached to the figure
\* and ax.colorbar = ref. grid is the sample grid X, Y, ev the result of
\* slope_func(X, Y), fault the library call that raises (if any), id the
\* identity of the colorbar this call creates.
generate_plot(att, ref, in, grid, ev, fault, id) ==
    LET expr == ti84_to_numpy(in.expr_raw)
        r0 == [NoCall EXCEPT !.in = in, !.fault = fault]
        r1 == [r0 EXCEPT !.compiled = TRUE]
        r2 == [r1 EXCEPT !.grid = grid, !.exc = ev.exc, !.V = ev.V]
        r3 == [r2 EXCEPT !.lengthSq = LengthSq(ev.V)]
        r4 == [r3 EXCEPT !.vmin = np_min(ev.V), !.vmax = np_max(ev.V)]
        att1 == IF ref # 0 THEN att \ {ref} ELSE att
        r5 == [r4 EXCEPT !.cbar = id]
    IN  IF ~CompileOK(expr) THEN Raised(r0, att, ref)
        ELSE IF in.coord_system \notin CoordSystems THEN Failure(r1, att, ref)
        ELSE IF ev.escaped THEN Raised(r2, att, ref)
        ELSE IF isnan_all(ev.V) THEN Failure(r2, att, ref)
        ELSE IF Size(grid.shape) = 0 THEN Failure(r3, att, ref)
        ELSE IF in.cmap_name \notin Palette THEN Failure(r3, att, ref)
        ELSE IF in.streamplot /\ StreamplotRaises(in.coord_system, grid, ev.V)
             THEN Failure(r4, att1, 0)
        ELSE IF ~in.streamplot /\ FlattenRaises(ev.V)
             THEN Failure(r4, att1, 0)
        ELSE IF fault = "L106" THEN Failure(r4, att1, 0)
        ELSE IF fault = "L107" THEN Failure(r5, att1 \cup {id}, 0)
        ELSE [shown |-> [kind |-> "field", call |-> id],
              attached |-> att1 \cup {id}, axColorbar |-> id,
              last |-> [r5 EXCEPT !.outcome = "Success"]]

XMaxSet == {0, 10, 12}
YMaxSet == {10}
CmapNames == {"viridis", "jet2"}
SystemNames == CoordSystems \cup {"Spherical"}

\* What one call can be given
Inputs ==
    [expr_raw : Exprs, x_max : XMaxSet, y_max : YMaxSet,
     cmap_name : CmapNames, streamplot : BOOLEAN, coord_system : SystemNames]

\* The calls made in a sequence of renders on one surface
SeqInputs ==
    [expr_raw : {E_poly, E_const, E_divzero, E_unbalanced}, x_max : {12},
     y_max : {10}, cmap_name : CmapNames, streamplot : {FALSE},
     coord_system : {"Cartesian", "Polar"}]

\* The grid shapes and evaluator results a call with these inputs can see
GridsOf(in) ==
    IF in.coord_system \in CoordSystems
    THEN Grids(in.coord_system, in.x_max, in.y_max)
    ELSE {NoGrid}

EvsOf(in, grid) ==
    IF CompileOK(ti84_to_numpy(in.expr_raw)) /\ in.coord_system \in CoordSystems
    THEN func(ti84_to_numpy(in.expr_raw), grid)
    ELSE {[escaped |-> FALSE, exc |-> "notrun", V |-> NoV]}

\* A fault is injected only in a call that reaches the library call
FaultsOf(in, grid, ev) ==
    IF generate_plot({}, 0, in, grid, ev, "none", 1).last.outcome = "Success"
    THEN Faults ELSE {"none"}

\* One call of generate_plot with inputs from InSet on the current surface
Call(InSet) ==
    /\ \E in \in InSet : \E grid \in GridsOf(in) : \E ev \in EvsOf(in, grid) :
         \E fault \in FaultsOf(in, grid, ev) :
           LET res == generate_plot(attached, axColorbar, in, grid, ev, fault,
                                    calls + 1)
           IN  /\ shown' = res.shown
               /\ attached' = res.attached
               /\ axColorbar' = res.axColorbar
               /\ last' = res.last
    /\ calls' = calls + 1

(***************************************************************************)
(* Spec: a sequence of render calls on one drawing surface                 *)
(***************************************************************************)
NoText == [done |-> FALSE, text |-> <<>>]
NoRadii == [built |-> FALSE, r |-> <<>>]

TrIdle == trTokens = <<>> /\ trOut = NoText
GIdle == gXMax = 0 /\ gRadii = NoRadii

\* fig, ax = plt.subplots(...): empty axes, no colorbar, no ax.colorbar
FreshSurface ==
    /\ shown = [kind |-> "empty", call |-> 0]
    /\ attached = {}
    /\ axColorbar = 0
    /\ calls = 0
    /\ last = NoCall

Init == TrIdle /\ GIdle /\ FreshSurface

GeneratePlot ==
    /\ calls < MaxCalls
    /\ Call(SeqInputs)
    /\ UNCHANGED <<trVars, gVars>>

Next == GeneratePlot

Spec == Init /\ [][Next]_vars

(***************************************************************************)
(* SpecCall: one render call, every input, on a surface earlier calls left *)
(***************************************************************************)
\* The surface when new, after a successful call, and after a call that
\* failed between creating its colorbar and recording it
InitCall ==
    /\ TrIdle /\ GIdle
    /\ last = NoCall
    /\ \/ FreshSurface
       \/ /\ shown = [kind |-> "field", call |-> 1]
          /\ attached = {1} /\ axColorbar = 1 /\ calls = 1
       \/ /\ shown = [kind |-> "diagnostic", call |-> 0]
          /\ attached = {1} /\ axColorbar = 0 /\ calls = 1

RenderOnce ==
    /\ last.outcome = "none"
    /\ Call(Inputs)
    /\ UNCHANGED <<trVars, gVars>>

NextCall == RenderOnce

SpecCall == InitCall /\ [][NextCall]_vars

(***************************************************************************)
(* SpecTranslate: ti84_to_numpy on every text of at most MaxTokens tokens  *)
(***************************************************************************)
InitTranslate ==
    /\ trTokens \in TokenSeqs
    /\ trOut = NoText
    /\ GIdle /\ FreshSurface

Translate ==
    /\ ~trOut.done
    /\ trOut' = [done |-> TRUE, text |-> ti84_to_numpy(Concat(trTokens))]
    /\ UNCHANGED <<trTokens, gVars, rVars>>

NextTranslate == Translate

SpecTranslate == InitTranslate /\ [][NextTranslate]_vars

(***************************************************************************)
(* SpecGrid: the radii of the Polar grid                                   *)
(***************************************************************************)
InitGrid ==
    /\ gXMax \in (1..MaxXMax) \cup {500}
    /\ gRadii = NoRadii
    /\ TrIdle /\ FreshSurface

BuildPolar ==
    /\ ~gRadii.built
    /\ \E r \in PolarRadii(gXMax) : gRadii' = [built |-> TRUE, r |-> r]
    /\ UNCHANGED <<gXMax, trVars, rVars>>

NextGrid == BuildPolar

SpecGrid == InitGrid /\ [][NextGrid]_vars

(***************************************************************************)
(* Properties                                                              *)
(***************************************************************************)
Called == last.outcome # "none"

\* C1: a render call whose translated text does not compile ends in the
\* Failure state with the diagnostic drawn, and no exception leaves the call.
C1_MalformedYieldsFailure ==
    (Called /\ ~CompileOK(ti84_to_numpy(last.in.expr_raw)))
        => (last.outcome = "Failure" /\ shown.kind = "diagnostic")

\* C2: a render call whose expression compiles and whose field V is NaN at
\* every sample point ends in the Failure state with the diagnostic drawn,
\* in every coordinate system and both drawing modes.
C2_AllNaNYieldsFailure ==
    (Called /\ last.V.kind # "none" /\ last.V.finite = {})
        => (last.outcome = "Failure" /\ shown.kind = "diagnostic")

C2_Witness ==
    /\ last.outcome = "Failure"
    /\ last.V.kind = "ndarray" /\ last.V.nan /\ last.V.finite = {}
    /\ last.in.coord_system = "Log-Polar" /\ last.in.streamplot

\* C3 as stated: whenever evaluation raises any exception, the evaluator
\* returns an array of the shape of x in which every entry is NaN.
C3_AnyExceptionYieldsNaNArray ==
    (Called /\ last.exc \in {"Exception", "BaseException"})
        => /\ last.V.kind = "ndarray"
           /\ last.V.shape = last.grid.shape
           /\ last.V.finite = {}
           /\ Size(last.grid.shape) > 0 => last.V.nan

\* C3 amended: whenever evaluation raises an exception of class Exception,
\* the evaluator returns an array of the shape of x in which every entry is
\* NaN, and the exception does not leave the evaluator.
C3_ExceptionYieldsNaNArray ==
    (Called /\ last.exc = "Exception")
        => /\ last.V.kind = "ndarray"
           /\ last.V.shape = last.grid.shape
           /\ last.V.finite = {}
           /\ Size(last.grid.shape) > 0 => last.V.nan
           /\ last.outcome # "Raised"

C3_Witness ==
    /\ last.exc = "Exception"
    /\ last.in.expr_raw = E_divzero
    /\ last.V.shape = last.grid.shape /\ Size(last.grid.shape) > 0 /\ last.V.nan

\* C4: for a valid expression (constants included) on a grid of shape (m,n),
\* V has shape (m,n) and the segment-mode render ends in Success.
C4_ValidExprKeepsGridShape ==
    (/\ Called /\ last.exc = "none" /\ last.V.finite # {}
     /\ last.in.coord_system \in CoordSystems /\ Size(last.grid.shape) > 0
     /\ last.in.cmap_name \in Palette /\ ~last.in.streamplot
     /\ last.fault = "none")
        => (last.V.shape = last.grid.shape /\ last.outcome = "Success")

\* C5: the translator's output has no "^", every function name in it is
\* directly preceded by "np.", and it is the token-by-token image of the
\* input (each name of the input rewritten exactly once).
C5_TranslateRewritesEachNameOnce ==
    trOut.done =>
        /\ Occurrences(trOut.text, <<"^">>) = {}
        /\ \A name \in FunctionNames : \A i \in Occurrences(trOut.text, name) :
               OccursAt(trOut.text, T_np, i - 3)
        /\ trOut.text =
               Concat([i \in 1..Len(trTokens) |-> TokenImage(trTokens[i])])

C5_Witness ==
    /\ trOut.done
    /\ trTokens = <<T_ln, T_log, <<"^">>>>
    /\ trOut.text = T_np \o T_log \o T_np \o T_log10 \o <<"*", "*">>

\* C6: what the surface shows after a call, and the state kept on the axes,
\* are those the same call leaves on a new surface.
C6_SurfaceDependsOnInputsOnly ==
    Called =>
        LET ev == [escaped |-> last.exc = "BaseException",
                   exc |-> last.exc, V |-> last.V]
            fresh == generate_plot({}, 0, last.in, last.grid, ev, last.fault,
                                   calls)
        IN  /\ shown = fresh.shown
            /\ attached = fresh.attached
            /\ axColorbar = fresh.axColorbar

C8_RadiiStrictlyInside ==
    gRadii.built =>
        \A i \in 1..Len(gRadii.r) : 1 < gRadii.r[i] /\ gRadii.r[i] < gXMax

\* C8 amended: every radius r of the Polar grid has 0.01 <= r <= xMax, the
\* first ring is at 0.01, and r < xMax unless xMax - 0.01 is a whole
\* multiple of the step (so for xMax = 5).
C8_RadiiFromFirstRing ==
    gRadii.built =>
        /\ Len(gRadii.r) > 0 => gRadii.r[1] = 1
        /\ \A i \in 1..Len(gRadii.r) :
               /\ 1 <= gRadii.r[i]
               /\ gRadii.r[i] <= gXMax
               /\ (gXMax - 1) % step # 0 => gRadii.r[i] < gXMax

C8_Witness ==
    /\ gRadii.built
    /\ gXMax = 500
    /\ Len(gRadii.r) = 100
    /\ gRadii.r[1] = 1 /\ gRadii.r[100] = 496

\* C9: at most one colorbar is attached to the figure, ax.colorbar is empty
\* or refers to it, and after a successful call it is that call's colorbar.
C9_AtMostOneLegend ==
    /\ Cardinality(attached) <= 1
    /\ axColorbar = 0 \/ attached = {axColorbar}
    /\ last.outcome = "Success" => attached = {last.cbar}

\* C10: at every finite entry of V the squared normalization length
\* U^2 + V^2 is at least 1, so the division never has a zero denominator.
C10_LengthNeverZero ==
    \A l \in last.lengthSq : l >= 1

C10_Witness ==
    /\ last.outcome = "Success"
    /\ 0 \in last.V.finite
    /\ 1 \in last.lengthSq

====
